---- MODULE Spec2Model ----
(***************************************************************************)
(* Model of haiku_baselines/common/segment_tree.py: SegmentTree,           *)
(* SumSegmentTree and MinSegmentTree, as driven by one synchronous caller  *)
(* (Spec), and of the training loop DQN.train_step / QRDQN.train_step      *)
(* with the replay buffer calls it makes (TrainSpec).                      *)
(*                                                                         *)
(* Numbers.  Priorities and prefix sums are floats in the source; here     *)
(* they are integers counted in units of 1e-5, so that the tolerance of    *)
(* line 163 is Epsilon == 1 and 1.0 is One.  float('inf') is Inf, a value  *)
(* above every other value of the model.  Rounding is not modelled.        *)
(*                                                                         *)
(* jax arrays.  A jax array is immutable: x.at[i].set(y) RETURNS a new     *)
(* array and leaves x as it was (AtSet below).  Lines 88, 100 and 137 of   *)
(* the source evaluate such an expression as a statement and drop the      *)
(* result; the model does the same.                                        *)
(*                                                                         *)
(* jax.jit.  _reduce_helper, _setitem_helper, _find_prefixsum_idx_helper   *)
(* and unique are wrapped by jax.jit (lines 5, 47, 48, 120).  A jitted     *)
(* function is traced with abstract arguments, and Python control flow on  *)
(* a traced value (the `if` of line 51, the `while` of lines 86 and 136,   *)
(* np.append on line 16) raises a tracer conversion error.  With the jax   *)
(* configuration flag jax_disable_jit set, the same functions run eagerly  *)
(* on concrete values.  The flag is outside the source, so it is a         *)
(* variable chosen in Init (disable_jit); by default it is FALSE.          *)
(***************************************************************************)
EXTENDS Integers, Sequences, FiniteSets, TLC

VARIABLES
    kind,        \* "none" before construction, "sum" | "min" after
    capacity,    \* self._capacity (0 before construction)
    value,       \* self._value: [0 .. 2*capacity-1 -> number]
    disable_jit, \* the jax_disable_jit configuration flag
    pc,          \* the caller: "idle" | "returned"
    op,          \* the call the caller last made
    arg,         \* its arguments
    res,         \* what it returned or raised
    old_value,   \* self._value when that call was entered
    step,        \* the caller's position in the scenario of spec section 8
    \* DQN.train_step / QRDQN.train_step and the replay buffer it calls
    prioritized_replay, \* self.prioritized_replay
    tpc,                \* where train_step stands ("off" when it is not modelled)
    remaining,          \* iterations of `for _ in range(gradient_steps)` still to run
    data,               \* the batch replay_buffer.sample returned
    new_priorities,     \* the last output of _train_step
    calls               \* the calls train_step made and their returns, in order

tree_vars == <<kind, capacity, value, disable_jit, pc, op, arg, res, old_value, step>>
train_vars == <<prioritized_replay, tpc, remaining, data, new_priorities, calls>>
vars == <<tree_vars, train_vars>>

----------------------------------------------------------------------------
(* Bounds of the model *)

\* capacities offered to the constructor are -1 .. MaxCapacity
MaxCapacity == 8
\* a batch of indices (setBatch) holds 1 .. MaxBatch entries
MaxBatch == 3
\* a batch of prefix-sum targets holds 1 .. MaxQuery entries
MaxQuery == 2

(* Program constants *)

\* 1e-5 of line 163, the unit of the model's numbers
Epsilon == 1
\* 1.0 in units of Epsilon
One == 100000 * Epsilon
\* float('inf') of line 174
Inf == 1000 * One

Min2(a, b) == IF a <= b THEN a ELSE b

\* jnp.add / jnp.minimum, the `operation` passed at lines 116 and 173;
\* inf + x = inf
Operation(k, a, b) ==
    IF k = "sum" THEN (IF a = Inf \/ b = Inf THEN Inf ELSE a + b) ELSE Min2(a, b)

\* neutral_element of lines 117 and 174
Neutral(k) == IF k = "sum" THEN 0 ELSE Inf

RECURSIVE BitAnd(_, _)
\* a & b on naturals
BitAnd(a, b) ==
    IF a = 0 \/ b = 0 THEN 0
    ELSE (IF a % 2 = 1 /\ b % 2 = 1 THEN 1 ELSE 0) + 2 * BitAnd(a \div 2, b \div 2)

\* the assertion of line 41 without its power-of-two half
CapacityPositive(c) == c > 0

\* the assertion of line 41
CapacityOk(c) == c > 0 /\ BitAnd(c, c - 1) = 0

\* jnp.zeros(2*capacity) in place of line 43: neutral_element ignored
FullZeros(c, k) == [i \in 0 .. 2 * c - 1 |-> 0]

\* jnp.full(2*capacity, neutral_element), line 43
Full(c, k) == [i \in 0 .. 2 * c - 1 |-> Neutral(k)]

\* results of a call
Ok(s) == [tag |-> "ok", val |-> s]
Raise(t) == [tag |-> t, val |-> <<>>]
NoRes == [tag |-> "none", val |-> <<>>]
NoArg == [idx |-> <<>>, val |-> <<>>, form |-> "none"]

----------------------------------------------------------------------------
(* jax array primitives *)

RECURSIVE LastPos(_, _, _)
\* the last position k <= n of idxs holding i, 0 when there is none
LastPos(idxs, i, n) ==
    IF n = 0 THEN 0 ELSE IF idxs[n] = i THEN n ELSE LastPos(idxs, i, n - 1)

\* arr.at[idxs].set(vals): a NEW array; out-of-range indices are dropped,
\* of several writes to one index the last one stands
AtSet(arr, idxs, vals) ==
    [i \in DOMAIN arr |->
        LET k == LastPos(idxs, i, Len(idxs))
        IN IF k = 0 THEN arr[i] ELSE vals[k]]

\* idxs // 2, idxs + c elementwise
Halve(idxs) == [k \in 1 .. Len(idxs) |-> idxs[k] \div 2]
Shift(idxs, c) == [k \in 1 .. Len(idxs) |-> idxs[k] + c]

RECURSIVE Select(_, _, _)
\* arr[mask] for a boolean mask, from position k on
Select(arr, mask, k) ==
    IF k > Len(arr) THEN <<>>
    ELSE (IF mask[k] THEN <<arr[k]>> ELSE <<>>) \o Select(arr, mask, k + 1)

\* unique, lines 6-17 (eager): keeps an entry when its right neighbour differs
unique(sorted_array) ==
    IF Len(sorted_array) = 1 THEN sorted_array
    ELSE LET n == Len(sorted_array)
             uniques == [k \in 1 .. n |->
                            IF k = n THEN TRUE
                            ELSE sorted_array[k + 1] # sorted_array[k]]
         IN Select(sorted_array, uniques, 1)

\* arr[i] for one index: a negative index counts from the end, an index out
\* of range is clamped (jax gather)
At(arr, i) ==
    LET n == Cardinality(DOMAIN arr)
        w == IF i < 0 THEN i + n ELSE i
    IN arr[IF w < 0 THEN 0 ELSE IF w > n - 1 THEN n - 1 ELSE w]

RECURSIVE SeqMin(_, _)
\* jnp.min over positions 1 .. n
SeqMin(s, n) == IF n = 1 THEN s[1] ELSE Min2(s[n], SeqMin(s, n - 1))

RECURSIVE SeqMax(_, _)
\* jnp.max over positions 1 .. n
SeqMax(s, n) == IF n = 1 THEN s[1] ELSE -Min2(-s[n], -SeqMax(s, n - 1))

----------------------------------------------------------------------------
(* SegmentTree *)

RECURSIVE _reduce_helper(_, _, _, _, _, _, _)
\* _reduce_helper, lines 50-64, run eagerly
_reduce_helper(k, _value, start, end, node, node_start, node_end) ==
    IF start = node_start /\ end = node_end THEN At(_value, node)
    ELSE LET mid == (node_start + node_end) \div 2
         IN IF end <= mid
            THEN _reduce_helper(k, _value, start, end, 2 * node, node_start, mid)
            ELSE IF mid + 1 <= start
            THEN _reduce_helper(k, _value, start, end, 2 * node + 1, mid + 1, node_end)
            ELSE Operation(k,
                    _reduce_helper(k, _value, start, mid, 2 * node, node_start, mid),
                    _reduce_helper(k, _value, mid + 1, end, 2 * node + 1, mid + 1, node_end))

\* reduce, lines 66-82; `end` is <<>> for None, <<e>> otherwise.  The call of
\* line 82 goes through jax.jit (line 47): traced, the `if` of line 51 raises
reduce(k, cap, _value, eager, start, end) ==
    LET e1 == IF end = <<>> THEN cap ELSE end[1]
        e2 == IF e1 < 0 THEN e1 + cap ELSE e1
        e3 == e2 - 1
    IN IF eager
       THEN Ok(<<_reduce_helper(k, _value, start, e3, 1, 0, cap - 1)>>)
       ELSE Raise("TracerError")

RECURSIVE _setitem_helper(_, _, _)
\* the loop of _setitem_helper, lines 86-94, run eagerly, entered with
\* idxs = unique(idxs // 2).  Line 88 builds the updated array and drops it;
\* _value is returned as it came in
_setitem_helper(k, _value, idxs) ==
    IF Len(idxs) > 1 \/ idxs[1] > 0
    THEN LET dropped == AtSet(_value, idxs,
                            [j \in 1 .. Len(idxs) |->
                                Operation(k, At(_value, 2 * idxs[j]),
                                             At(_value, 2 * idxs[j] + 1))])
         IN _setitem_helper(k, _value, unique(Halve(idxs)))
    ELSE _value

\* __setitem__ with the array of line 100 kept (self._value = ...at[].set(val))
\* while the repair of line 88 is still dropped
SetitemLeafKept(k, cap, _value, eager, idx, val) ==
    LET idxs == Shift(idx, cap)
        written == AtSet(_value, idxs, val)
    IN IF eager
       THEN [value |-> _setitem_helper(k, written, unique(Halve(idxs))), res |-> Ok(<<>>)]
       ELSE [value |-> written, res |-> Raise("TracerError")]

\* __setitem__ with the array of line 100 kept, but val taken as one scalar
\* (its first entry) for every index
SetitemFirstValue(k, cap, _value, eager, idx, val) ==
    LET idxs == Shift(idx, cap)
        written == AtSet(_value, idxs, [j \in 1 .. Len(idxs) |-> val[1]])
    IN IF eager
       THEN [value |-> _setitem_helper(k, written, unique(Halve(idxs))), res |-> Ok(<<>>)]
       ELSE [value |-> written, res |-> Raise("TracerError")]

\* __setitem__, lines 96-104: the new self._value and the outcome.  Line 100
\* builds the array with the leaves written and drops it.  The call of line
\* 104 goes through jax.jit (line 48): traced, line 86 (or line 16) raises
\* before self._value is assigned
__setitem__(k, cap, _value, eager, idx, val) ==
    LET idxs == Shift(idx, cap)
        dropped == AtSet(_value, idxs, val)
    IN IF eager
       THEN [value |-> _setitem_helper(k, _value, unique(Halve(idxs))), res |-> Ok(<<>>)]
       ELSE [value |-> _value, res |-> Raise("TracerError")]

\* __getitem__, lines 106-109, for one index
__getitem__(cap, _value, idx) ==
    IF ~(idx < cap) THEN Raise("AssertionError")
    ELSE IF ~(0 <= idx) THEN Raise("AssertionError")
    ELSE Ok(<<At(_value, cap + idx)>>)

----------------------------------------------------------------------------
(* SumSegmentTree *)

RECURSIVE _find_prefixsum_idx_helper(_, _, _, _, _)
\* the loop of _find_prefixsum_idx_helper, lines 136-146, run eagerly.  Line
\* 137 builds the array of doubled indices and drops it, so idx is compared
\* and advanced undoubled.  An iteration that moves no index while some entry
\* still continues repeats for ever: "hang"
_find_prefixsum_idx_helper(cap, _value, idx, cont, prefixsum) ==
    LET n == Len(prefixsum)
        at == [j \in 1 .. n |-> At(_value, idx[j])]
        prefixsum_new == [j \in 1 .. n |->
            IF at[j] <= prefixsum[j] THEN prefixsum[j] - at[j] ELSE prefixsum[j]]
        idx_new == [j \in 1 .. n |->
            IF at[j] > prefixsum[j] \/ ~cont[j] THEN idx[j] ELSE idx[j] + 1]
        cont_new == [j \in 1 .. n |-> idx_new[j] < cap]
    IN IF \E j \in 1 .. n : cont[j]
       THEN IF idx_new = idx
            THEN Raise("hang")
            ELSE _find_prefixsum_idx_helper(cap, _value, idx_new, cont_new, prefixsum_new)
       ELSE Ok(Shift(idx, -cap))

\* find_prefixsum_idx without the assertion of line 163
FindNoUpperCheck(cap, _value, eager, prefixsum, form) ==
    LET n == Len(prefixsum)
        form1 == IF form = "float" THEN "jnparray" ELSE form
    IN IF ~(0 <= SeqMin(prefixsum, n)) THEN Raise("AssertionError")
       ELSE IF form1 # "ndarray64" THEN Raise("AssertionError")
       ELSE IF ~eager THEN Raise("TracerError")
       ELSE _find_prefixsum_idx_helper(cap, _value,
                [j \in 1 .. n |-> 1], [j \in 1 .. n |-> TRUE], prefixsum)

\* find_prefixsum_idx, lines 148-165.  form is the Python type of the
\* argument: "float", "ndarray64" (numpy float64 array) or "jnparray";
\* a float becomes a jax array (line 161), and an element of a jax array is
\* not a Python float (line 164), while a numpy float64 is
find_prefixsum_idx(cap, _value, eager, prefixsum, form) ==
    LET n == Len(prefixsum)
        form1 == IF form = "float" THEN "jnparray" ELSE form
        total == reduce("sum", cap, _value, eager, 0, <<>>)
    IN IF ~(0 <= SeqMin(prefixsum, n)) THEN Raise("AssertionError")
       ELSE IF total.tag # "ok" THEN total
       ELSE IF ~(SeqMax(prefixsum, n) <= total.val[1] + Epsilon) THEN Raise("AssertionError")
       ELSE IF form1 # "ndarray64" THEN Raise("AssertionError")
       ELSE IF ~eager THEN Raise("TracerError")
       ELSE _find_prefixsum_idx_helper(cap, _value,
                [j \in 1 .. n |-> 1], [j \in 1 .. n |-> TRUE], prefixsum)

----------------------------------------------------------------------------
(* MinSegmentTree and the two specialised reductions *)

\* SumSegmentTree.sum, lines 122-130
sum(cap, _value, eager, start, end) == reduce("sum", cap, _value, eager, start, end)

\* MinSegmentTree.min, lines 177-185
min(cap, _value, eager, start, end) == reduce("min", cap, _value, eager, start, end)

----------------------------------------------------------------------------
(* Inputs the caller draws from *)

Kinds == {"sum", "min"}
Capacities == -1 .. MaxCapacity
\* indices offered to get / set / setBatch: the range and one step outside
Indices == -1 .. capacity
SetValues == {0, One, 5 * One}
BatchIndices == UNION {[1 .. n -> Indices] : n \in 1 .. MaxBatch}
\* the values of a batch of n: ascending, constant or descending
BatchValues(n) ==
    { [j \in 1 .. n |-> j * One],
      [j \in 1 .. n |-> 5 * One],
      [j \in 1 .. n |-> (n - j) * One] }
\* -1.0, 0.0, 1e-5, 2e-5, 1.0, 1.5, 11.0, 11.1
Targets == {-One, 0, Epsilon, 2 * Epsilon, One, One + One \div 2, 11 * One,
            11 * One + One \div 10}
TargetBatches == UNION {[1 .. n -> Targets] : n \in 1 .. MaxQuery}
\* reduce ranges within the precondition 0 <= start < end <= capacity; the
\* end is given, left to its default, or counted from the back (line 79)
Ends(start) ==
    {<<>>} \cup {<<e>> : e \in start + 1 .. capacity}
           \cup {<<e>> : e \in start + 1 - capacity .. -1}

----------------------------------------------------------------------------
(* The scenario of spec section 8: a capacity-8 SumSegmentTree, then        *)
(* set(3, 5.0), then setBatch([0,1,2], [1.0,2.0,3.0]).  step is 1, 2, 3     *)
(* after each of these has returned, and 0 once the caller has left it.     *)

ScenarioNext(o, a, r) ==
    IF r.tag # "ok" THEN 0
    ELSE IF step = 1 /\ o = "set" /\ a.idx = <<3>> /\ a.val = <<5 * One>> THEN 2
    ELSE IF step = 2 /\ o = "setBatch" /\ a.idx = <<0, 1, 2>>
                     /\ a.val = <<One, 2 * One, 3 * One>> THEN 3
    ELSE 0

----------------------------------------------------------------------------
(* The caller *)

Init ==
    /\ kind = "none"
    /\ capacity = 0
    /\ value = <<>>
    /\ disable_jit \in BOOLEAN
    /\ pc = "idle"
    /\ op = "none"
    /\ arg = NoArg
    /\ res = NoRes
    /\ old_value = <<>>
    /\ step = 0
    /\ prioritized_replay = FALSE
    /\ tpc = "off"
    /\ remaining = 0
    /\ data = <<>>
    /\ new_priorities = <<>>
    /\ calls = <<>>

\* SumSegmentTree(c) / MinSegmentTree(c): lines 113-120, 170-175, 21-48
Construct ==
    /\ pc = "idle" /\ kind = "none"
    /\ \E k \in Kinds, c \in Capacities :
        /\ op' = "construct"
        /\ arg' = [idx |-> <<c>>, val |-> <<>>, form |-> k]
        /\ IF CapacityOk(c)
           THEN /\ kind' = k /\ capacity' = c /\ value' = Full(c, k)
                /\ res' = Ok(<<>>)
                /\ step' = IF k = "sum" /\ c = 8 THEN 1 ELSE 0
           ELSE /\ UNCHANGED <<kind, capacity, value, step>>
                /\ res' = Raise("AssertionError")
    /\ old_value' = value
    /\ pc' = "returned"
    /\ UNCHANGED disable_jit

\* tree[i]
Get ==
    /\ pc = "idle" /\ kind # "none"
    /\ \E i \in Indices :
        /\ op' = "get"
        /\ arg' = [idx |-> <<i>>, val |-> <<>>, form |-> "int"]
        /\ res' = __getitem__(capacity, value, i)
    /\ old_value' = value
    /\ pc' = "returned"
    /\ UNCHANGED <<kind, capacity, value, disable_jit, step>>

\* tree[i] = v
Set ==
    /\ pc = "idle" /\ kind # "none"
    /\ \E i \in Indices, v \in SetValues :
        LET a == [idx |-> <<i>>, val |-> <<v>>, form |-> "int"]
            r == __setitem__(kind, capacity, value, disable_jit, <<i>>, <<v>>)
        IN /\ op' = "set" /\ arg' = a
           /\ value' = r.value /\ res' = r.res
           /\ step' = ScenarioNext("set", a, r.res)
    /\ old_value' = value
    /\ pc' = "returned"
    /\ UNCHANGED <<kind, capacity, disable_jit>>

\* tree[idxs] = vals, idxs and vals arrays of one length
SetBatch ==
    /\ pc = "idle" /\ kind # "none"
    /\ \E idxs \in BatchIndices : \E vals \in BatchValues(Len(idxs)) :
        LET a == [idx |-> idxs, val |-> vals, form |-> "array"]
            r == __setitem__(kind, capacity, value, disable_jit, idxs, vals)
        IN /\ op' = "setBatch" /\ arg' = a
           /\ value' = r.value /\ res' = r.res
           /\ step' = ScenarioNext("setBatch", a, r.res)
    /\ old_value' = value
    /\ pc' = "returned"
    /\ UNCHANGED <<kind, capacity, disable_jit>>

\* tree.sum(start, end)
Sum ==
    /\ pc = "idle" /\ kind = "sum"
    /\ \E start \in 0 .. capacity - 1 : \E end \in Ends(start) :
        /\ op' = "sum"
        /\ arg' = [idx |-> <<start>>, val |-> end, form |-> "int"]
        /\ res' = sum(capacity, value, disable_jit, start, end)
    /\ old_value' = value
    /\ pc' = "returned"
    /\ UNCHANGED <<kind, capacity, value, disable_jit, step>>

\* tree.min(start, end)
MinOp ==
    /\ pc = "idle" /\ kind = "min"
    /\ \E start \in 0 .. capacity - 1 : \E end \in Ends(start) :
        /\ op' = "min"
        /\ arg' = [idx |-> <<start>>, val |-> end, form |-> "int"]
        /\ res' = min(capacity, value, disable_jit, start, end)
    /\ old_value' = value
    /\ pc' = "returned"
    /\ UNCHANGED <<kind, capacity, value, disable_jit, step>>

\* tree.find_prefixsum_idx(prefixsum), with one float or with an array
Find ==
    /\ pc = "idle" /\ kind = "sum"
    /\ \E q \in ({<<t>> : t \in Targets} \X {"float"})
                \cup (TargetBatches \X {"ndarray64", "jnparray"}) :
        /\ op' = "find"
        /\ arg' = [idx |-> <<>>, val |-> q[1], form |-> q[2]]
        /\ res' = find_prefixsum_idx(capacity, value, disable_jit, q[1], q[2])
    /\ old_value' = value
    /\ pc' = "returned"
    /\ UNCHANGED <<kind, capacity, value, disable_jit, step>>

\* the caller has looked at the outcome and goes on
Continue ==
    /\ pc = "returned"
    /\ pc' = "idle"
    /\ op' = "none" /\ arg' = NoArg /\ res' = NoRes
    /\ old_value' = value
    /\ UNCHANGED <<kind, capacity, value, disable_jit, step>>

Next ==
    \/ Construct /\ UNCHANGED train_vars
    \/ Get /\ UNCHANGED train_vars
    \/ Set /\ UNCHANGED train_vars
    \/ SetBatch /\ UNCHANGED train_vars
    \/ Sum /\ UNCHANGED train_vars
    \/ MinOp /\ UNCHANGED train_vars
    \/ Find /\ UNCHANGED train_vars
    \/ Continue /\ UNCHANGED train_vars

Spec == Init /\ [][Next]_vars

----------------------------------------------------------------------------
(* DQN.train_step (dqn.py lines 67-86); QRDQN.train_step (qrdqn.py lines     *)
(* 82-100) is the same loop.  The replay buffer is called synchronously:     *)
(* each call is a begin and a return, with nothing of train_step in between. *)
(* Errors and priorities are integers in units of 1e-6.                      *)

\* range(gradient_steps) runs 0 .. MaxGradientSteps times
MaxGradientSteps == 2
\* self.batch_size in the model
TrainBatch == 2
\* prioritized_replay_eps, 1e-6, dqn.py line 16
PrioritizedReplayEps == 1

\* the buffer slots a sampled transition may come from
Slots == {0, 1}
\* levels of the absolute TD error of a batch
ErrorLevels == {0, 5}

Event(n, i, p) == [name |-> n, indexes |-> i, priorities |-> p]

\* abs_error of _train_step for a batch: some level, and different for
\* different transitions
AbsError(indexes, e) == [j \in 1 .. Len(indexes) |-> e + indexes[j]]

\* new_priorities of _train_step, dqn.py lines 96-98 (None is <<>>)
NewPriorities(prioritized, abs_error) ==
    IF prioritized
    THEN [j \in 1 .. Len(abs_error) |-> abs_error[j] + PrioritizedReplayEps]
    ELSE <<>>

TrainInit ==
    /\ kind = "none"
    /\ capacity = 0
    /\ value = <<>>
    /\ disable_jit = FALSE
    /\ pc = "idle"
    /\ op = "none"
    /\ arg = NoArg
    /\ res = NoRes
    /\ old_value = <<>>
    /\ step = 0
    /\ prioritized_replay \in BOOLEAN
    /\ tpc = "idle"
    /\ remaining = 0
    /\ data = <<>>
    /\ new_priorities = <<>>
    /\ calls = <<>>

\* train_step(steps, gradient_steps) is entered, line 67
TrainStepCall ==
    /\ tpc = "idle"
    /\ \E gradient_steps \in 0 .. MaxGradientSteps : remaining' = gradient_steps
    /\ tpc' = "loop"
    /\ UNCHANGED <<prioritized_replay, data, new_priorities, calls>>

\* lines 70-73: replay_buffer.sample(...) is called
SampleBegin ==
    /\ tpc = "loop" /\ remaining > 0
    /\ calls' = Append(calls, Event("sample", <<>>, <<>>))
    /\ tpc' = "sampling"
    /\ UNCHANGED <<prioritized_replay, remaining, data, new_priorities>>

\* lines 70-73: it returns the batch, with its 'indexes' when prioritized
SampleReturn ==
    /\ tpc = "sampling"
    /\ \E indexes \in [1 .. TrainBatch -> Slots] :
        /\ data' = indexes
        /\ calls' = Append(calls, Event("sampled", indexes, <<>>))
    /\ tpc' = "sampled"
    /\ UNCHANGED <<prioritized_replay, remaining, new_priorities>>

\* lines 75-77: _train_step(..., **data), lines 88-99
TrainCompute ==
    /\ tpc = "sampled"
    /\ \E e \in ErrorLevels :
        LET p == NewPriorities(prioritized_replay, AbsError(data, e))
        IN /\ new_priorities' = p
           /\ calls' = Append(calls, Event("train", data, p))
    /\ tpc' = "trained"
    /\ UNCHANGED <<prioritized_replay, remaining, data>>

\* the update of lines 79-80 moved before _train_step: it passes whatever
\* new_priorities held before
UpdateBeforeTrain ==
    /\ tpc = "sampled" /\ prioritized_replay
    /\ calls' = Append(calls, Event("update", data, new_priorities))
    /\ tpc' = "updating"
    /\ UNCHANGED <<prioritized_replay, remaining, data, new_priorities>>

\* lines 79-80: replay_buffer.update_priorities(data['indexes'], new_priorities)
UpdateBegin ==
    /\ tpc = "trained" /\ prioritized_replay
    /\ calls' = Append(calls, Event("update", data, new_priorities))
    /\ tpc' = "updating"
    /\ UNCHANGED <<prioritized_replay, remaining, data, new_priorities>>

\* update_priorities returns; the iteration is over
UpdateReturn ==
    /\ tpc = "updating"
    /\ calls' = Append(calls, Event("updated", <<>>, <<>>))
    /\ remaining' = remaining - 1
    /\ tpc' = "loop"
    /\ UNCHANGED <<prioritized_replay, data, new_priorities>>

\* line 79 with prioritized_replay off: the iteration is over
NoUpdate ==
    /\ tpc = "trained" /\ ~prioritized_replay
    /\ remaining' = remaining - 1
    /\ tpc' = "loop"
    /\ UNCHANGED <<prioritized_replay, data, new_priorities, calls>>

\* lines 82-86: the loop is over; `return loss` needs one iteration to have
\* bound loss
TrainStepReturn ==
    /\ tpc = "loop" /\ remaining = 0
    /\ tpc' = IF calls = <<>> THEN "UnboundLocalError" ELSE "done"
    /\ UNCHANGED <<prioritized_replay, remaining, data, new_priorities, calls>>

TrainNext ==
    \/ TrainStepCall /\ UNCHANGED tree_vars
    \/ SampleBegin /\ UNCHANGED tree_vars
    \/ SampleReturn /\ UNCHANGED tree_vars
    \/ TrainCompute /\ UNCHANGED tree_vars
    \/ UpdateBegin /\ UNCHANGED tree_vars
    \/ UpdateReturn /\ UNCHANGED tree_vars
    \/ NoUpdate /\ UNCHANGED tree_vars
    \/ TrainStepReturn /\ UNCHANGED tree_vars

TrainSpec == TrainInit /\ [][TrainNext]_vars

----------------------------------------------------------------------------
(* What the claims speak of *)

Returned(o) == pc = "returned" /\ op = o
InRange(i) == 0 <= i /\ i < capacity
AllInRange(idxs) == \A j \in 1 .. Len(idxs) : InRange(idxs[j])
Distinct(idxs) == \A a, b \in 1 .. Len(idxs) : a # b => idxs[a] # idxs[b]

\* get(i) of a storage v, as the caller sees it
GetOf(v, i) == __getitem__(capacity, v, i)
Leaf(v, i) == v[capacity + i]

\* storage[k] == operation(storage[2k], storage[2k+1]) for every internal node
Consistent(v) ==
    \A k \in 1 .. capacity - 1 : v[k] = Operation(kind, v[2 * k], v[2 * k + 1])

RECURSIVE LeafFold(_, _, _, _)
\* operation over get(i), i in [start, end), left to right
LeafFold(k, v, start, end) ==
    IF end = start + 1 THEN Leaf(v, start)
    ELSE Operation(k, LeafFold(k, v, start, end - 1), Leaf(v, end - 1))

\* the half-open range [start, end) a recorded sum / min call asked for
AskedStart == arg.idx[1]
AskedEnd ==
    IF arg.val = <<>> THEN capacity
    ELSE IF arg.val[1] < 0 THEN arg.val[1] + capacity ELSE arg.val[1]

\* the sum of the leaves [0, i)
PrefixOf(v, i) == IF i = 0 THEN 0 ELSE LeafFold("sum", v, 0, i)
TotalOf(v) == LeafFold("sum", v, 0, capacity)
\* the highest index whose prefix is <= t
HighestIndex(v, t) ==
    CHOOSE i \in 0 .. capacity - 1 :
        /\ PrefixOf(v, i) <= t
        /\ \A j \in 0 .. capacity - 1 : PrefixOf(v, j) <= t => j <= i

RECURSIVE SetOneByOne(_, _, _, _)
\* the storage after set(idxs[n], vals[n]); ...; set(idxs[Len], vals[Len])
SetOneByOne(v, idxs, vals, n) ==
    IF n > Len(idxs) THEN v
    ELSE SetOneByOne(
            __setitem__(kind, capacity, v, disable_jit, <<idxs[n]>>, <<vals[n]>>).value,
            idxs, vals, n + 1)

Failed(r) == r.tag \in {"AssertionError", "TracerError"} /\ r.val = <<>>

----------------------------------------------------------------------------
(* Claims *)

\* C1: after any sequence of set / setBatch calls on a constructed tree, every
\* internal node k, 1 <= k < capacity, holds operation(storage[2k], storage[2k+1]).
C1_TreeConsistency == kind # "none" => Consistent(value)

\* C1 witness: a setBatch of several in-range indices has returned on a tree
\* with internal nodes
C1_Witness ==
    /\ Returned("setBatch") /\ res.tag = "ok"
    /\ capacity = 8 /\ Len(arg.idx) >= 2 /\ AllInRange(arg.idx)

\* C2 (as claimed): once set(i, v) with 0 <= i < capacity has completed, get(i)
\* returns v and get(j) returns what it returned before, for every other j.
C2_PointUpdate ==
    (Returned("set") /\ res.tag = "ok" /\ InRange(arg.idx[1])) =>
        /\ GetOf(value, arg.idx[1]) = Ok(arg.val)
        /\ \A j \in 0 .. capacity - 1 :
            j # arg.idx[1] => GetOf(value, j) = GetOf(old_value, j)

\* C3 (as claimed): sum(start, end), 0 <= start < end <= capacity, returns the
\* arithmetic sum of get(i) over [start, end); sum() that of all leaves.
C3_RangeSum ==
    Returned("sum") =>
        res = Ok(<<LeafFold("sum", value, AskedStart, AskedEnd)>>)

\* C4 (as claimed): min(start, end), 0 <= start < end <= capacity, returns the
\* minimum of get(i) over [start, end); min() the least leaf.
C4_RangeMin ==
    Returned("min") =>
        res = Ok(<<LeafFold("min", value, AskedStart, AskedEnd)>>)

\* C5 (as claimed): on a consistent tree with non-negative leaves, for targets
\* 0 <= t <= sum(0, capacity), findPrefixSumIndex returns for each t the highest
\* index i whose prefix sum over [0, i) is <= t.
C5_PrefixSumSearch ==
    ( /\ Returned("find") /\ Consistent(value)
      /\ \A i \in 0 .. capacity - 1 : Leaf(value, i) >= 0
      /\ \A j \in 1 .. Len(arg.val) :
            0 <= arg.val[j] /\ arg.val[j] <= TotalOf(value) ) =>
        /\ res.tag = "ok"
        /\ Len(res.val) = Len(arg.val)
        /\ \A j \in 1 .. Len(arg.val) : res.val[j] = HighestIndex(value, arg.val[j])

\* C6 (as claimed): for in-range targets t1 <= t2, findPrefixSumIndex(t1) <=
\* findPrefixSumIndex(t2), between the entries of one query as well.
C6_Monotone ==
    ( /\ Returned("find")
      /\ \A j \in 1 .. Len(arg.val) :
            0 <= arg.val[j] /\ arg.val[j] <= TotalOf(value) ) =>
        /\ res.tag = "ok"
        /\ Len(res.val) = Len(arg.val)
        /\ \A a, b \in 1 .. Len(arg.val) :
            arg.val[a] <= arg.val[b] => res.val[a] <= res.val[b]

\* C7: setBatch over pairwise distinct in-range indices leaves the whole storage
\* as the same sets made one by one, in the order given, from the same tree.
C7_BatchAsSequence ==
    (Returned("setBatch") /\ Distinct(arg.idx) /\ AllInRange(arg.idx)) =>
        value = SetOneByOne(old_value, arg.idx, arg.val, 1)

\* C7 witness: a setBatch of three distinct in-range indices has returned
C7_Witness ==
    /\ Returned("setBatch") /\ res.tag = "ok"
    /\ Len(arg.idx) = 3 /\ Distinct(arg.idx) /\ AllInRange(arg.idx)
    /\ arg.val[1] # arg.val[2]

\* C8 (as claimed): after set(3, 5.0) and setBatch([0,1,2], [1.0,2.0,3.0]) on a
\* capacity-8 SumSegmentTree, findPrefixSumIndex(0.0) = 0,
\* findPrefixSumIndex(1.5) = 1 and findPrefixSumIndex(11.0) = 3.
C8_Scenario ==
    (Returned("find") /\ step = 3 /\ arg.form = "float") =>
        /\ arg.val = <<0>> => res = Ok(<<0>>)
        /\ arg.val = <<One + One \div 2>> => res = Ok(<<1>>)
        /\ arg.val = <<11 * One>> => res = Ok(<<3>>)

\* C9 (as claimed): get, set and setBatch with an index outside [0, capacity)
\* fail with the index error, and the storage is as it was.
C9_IndexRejected ==
    ( /\ pc = "returned" /\ op \in {"get", "set", "setBatch"}
      /\ ~AllInRange(arg.idx) ) =>
        /\ res = Raise("AssertionError")
        /\ value = old_value

PowerOfTwo(c) == \E e \in 0 .. c : c = 2 ^ e

\* C11: constructing a tree succeeds exactly when capacity > 0 and capacity is a
\* power of two; otherwise it fails the assertion of line 41 and no tree exists.
C11_CapacityValidation ==
    Returned("construct") =>
        LET c == arg.idx[1]
        IN IF c > 0 /\ PowerOfTwo(c)
           THEN res.tag = "ok" /\ kind = arg.form /\ capacity = c
           ELSE res = Raise("AssertionError") /\ kind = "none" /\ value = <<>>

\* C11 witness: a capacity that is positive but no power of two was refused
C11_Witness ==
    /\ Returned("construct") /\ arg.idx = <<6>>
    /\ res.tag = "AssertionError" /\ kind = "none"

\* C12: right after construction all 2*capacity slots hold the identity (0 for
\* sum, +inf for min), get(i) returns it for every i, and the tree is consistent.
C12_InitialState ==
    (Returned("construct") /\ res.tag = "ok") =>
        LET identity == IF kind = "sum" THEN 0 ELSE Inf
        IN /\ DOMAIN value = 0 .. 2 * capacity - 1
           /\ \A i \in 0 .. 2 * capacity - 1 : value[i] = identity
           /\ \A i \in 0 .. capacity - 1 : GetOf(value, i) = Ok(<<identity>>)
           /\ Consistent(value)

\* C12 witness: a MinSegmentTree of capacity 8 has just been constructed
C12_Witness ==
    /\ Returned("construct") /\ res.tag = "ok"
    /\ kind = "min" /\ capacity = 8

RECURSIVE _setitem_levels(_)
\* the successive arrays idxs for which the body of the loop of lines 86-93
\* runs (line 88 recomputes these nodes), entered with idxs = unique(idxs // 2)
_setitem_levels(idxs) ==
    IF Len(idxs) > 1 \/ idxs[1] > 0
    THEN <<idxs>> \o _setitem_levels(unique(Halve(idxs)))
    ELSE <<>>

\* the levels a recorded setBatch went through
LevelsOfCall == _setitem_levels(unique(Halve(Shift(arg.idx, capacity))))

\* C13 (as claimed): during setBatch the list of parent indices recomputed at
\* each propagation level holds every node index at most once, whatever the
\* order of the input indices and with duplicate indices too.
C13_DedupEveryLevel ==
    (Returned("setBatch") /\ res.tag = "ok" /\ AllInRange(arg.idx)) =>
        \A l \in 1 .. Len(LevelsOfCall) : Distinct(LevelsOfCall[l])

\* C14 (as claimed): when an index occurs more than once in a completed
\* setBatch, get(index) returns the value paired with its last occurrence, and
\* the ancestors are consistent with it.
C14_LastValueWins ==
    ( /\ Returned("setBatch") /\ res.tag = "ok"
      /\ AllInRange(arg.idx) /\ ~Distinct(arg.idx) ) =>
        /\ \A j \in 1 .. Len(arg.idx) :
            GetOf(value, arg.idx[j]) =
                Ok(<<arg.val[LastPos(arg.idx, arg.idx[j], Len(arg.idx))]>>)
        /\ Consistent(value)

\* C15 (as claimed): for in-range targets the descent of findPrefixSumIndex
\* terminates, and every index it returns lies in [0, capacity) (its node
\* index ended at a leaf position in [capacity, 2*capacity)).
C15_SearchEndsAtLeaf ==
    ( /\ Returned("find")
      /\ \A j \in 1 .. Len(arg.val) :
            0 <= arg.val[j] /\ arg.val[j] <= TotalOf(value) ) =>
        /\ res.tag # "hang"
        /\ res.tag = "ok" =>
            \A j \in 1 .. Len(res.val) : 0 <= res.val[j] /\ res.val[j] < capacity

\* C16: with prioritized replay on, every iteration of train_step calls
\* replay_buffer.sample, then _train_step on the batch it returned, then
\* replay_buffer.update_priorities with that batch's indexes and the priorities
\* _train_step computed from it; a sample is only called first or right after
\* an update_priorities has returned, never while one is under way.
C16_SampleTrainUpdate ==
    prioritized_replay =>
        /\ \A k \in 1 .. Len(calls) :
            /\ calls[k].name = "sample" => (k = 1 \/ calls[k - 1].name = "updated")
            /\ calls[k].name = "sampled" => calls[k - 1].name = "sample"
            /\ calls[k].name = "train" =>
                /\ calls[k - 1].name = "sampled"
                /\ calls[k].indexes = calls[k - 1].indexes
                /\ k < Len(calls) => calls[k + 1].name = "update"
            /\ calls[k].name = "update" =>
                /\ k >= 4
                /\ calls[k - 1].name = "train"
                /\ calls[k].indexes = calls[k - 2].indexes
                /\ calls[k].priorities = calls[k - 1].priorities
                /\ \E e \in ErrorLevels :
                    calls[k].priorities =
                        [j \in 1 .. TrainBatch |->
                            e + calls[k - 2].indexes[j] + PrioritizedReplayEps]
            /\ calls[k].name = "updated" => calls[k - 1].name = "update"
        /\ tpc \in {"loop", "done"} =>
            /\ Len(calls) % 5 = 0
            /\ calls # <<>> => calls[Len(calls)].name = "updated"

\* C16 witness: train_step has returned after two iterations that sampled
\* different batches and updated their priorities
C16_Witness ==
    /\ prioritized_replay /\ tpc = "done"
    /\ Len(calls) = 10
    /\ calls[4].name = "update" /\ calls[9].name = "update"
    /\ calls[4].indexes # calls[9].indexes

====
